---------------------------- MODULE Spec2Model ----------------------------
(***************************************************************************)
(* A model of evolvepro/plm/esm/extract_mps.py: main() = run(args) and     *)
(* the optional concatenate_files pass.                                    *)
(*                                                                         *)
(* The pretrained model is external.  A tensor is modelled by the          *)
(* identity of the token positions it was computed at: the representation  *)
(* of row i, position p of a token batch is the descriptor                 *)
(* [rec, pos, kind] (rec: index of the sequence in the dataset; kind:      *)
(* bos, res, eos or pad).  Sequences are residue strings, one token per    *)
(* character, prefixes of Residues.  Python indices are 0-based, the       *)
(* sequences of this module 1-based; token and contact positions keep      *)
(* Python's 0-based numbering.                                             *)
(***************************************************************************)
EXTENDS Integers, Sequences, FiniteSets, TLC

VARIABLES
    args,          \* the parsed command line (create_parser)
    env,           \* what the run reads: FASTA file, model kind, accelerators
    pc,            \* position in main()/run()
    device,        \* result of get_device()
    modelDevice,   \* device the model's weights are on
    dataset,       \* FastaBatchedDataset: sequence of [label, str]
    batches,       \* get_batch_indices: sequence of sequences of indices
    repr_layers,   \* normalised layer indices
    batch_idx,     \* index of the batch being processed (1-based)
    i,             \* index within the batch of the sequence being saved
    forwards,      \* log of forward passes: [model, toks, batch]
    files,         \* content of output_dir: output path -> saved result
    saves,         \* log of torch.save calls: [path, rec, truncate_len]
    csv,           \* the CSV file: whether it was written, and its rows
    raised         \* the exception that ended the program, or "none"

vars == <<args, env, pc, device, modelDevice, dataset, batches, repr_layers,
          batch_idx, i, forwards, files, saves, csv, raised>>

---------------------------------------------------------------------------
(* Bounds of the model *)

MaxRecords == 2
MaxSeqLen == 2
NumLayers == 2
EmbedDim == 2
MaxLayerArgs == 2

---------------------------------------------------------------------------
(* Values *)

Residues == <<"M", "K", "V", "L", "A", "G">>

SeqStr(n) == SubSeq(Residues, 1, n)

\* FASTA labels as their "/"-separated components: "a", "./a", "d/a".
Labels == { <<"a">>, <<".", "a">>, <<"d", "a">> }

IncludeChoices == {"mean", "per_tok", "bos", "contacts"}

NoCsv == [written |-> FALSE, rows |-> {}]

Min(a, b) == IF a <= b THEN a ELSE b

Max(a, b) == IF a >= b THEN a ELSE b

Range(s) == { s[k] : k \in DOMAIN s }

SeqsUpTo(S, n) == UNION { [1..k -> S] : k \in 0..n }

---------------------------------------------------------------------------
(* get_device, lines 76-83 *)

get_device(e) ==
    IF e.mps THEN "mps" ELSE IF e.cuda THEN "cuda" ELSE "cpu"

\* The condition of lines 96 and 122: `not args.nogpu and device.type != "cpu"`.
UseAccelerator(a, dev) == ~a.nogpu /\ dev # "cpu"

\* Line 97: the device the model is on after `model.to(device)`, or CPU.
ModelPlacement(a, dev) == IF UseAccelerator(a, dev) THEN dev ELSE "cpu"

ToksPlacementNoFlag(a, dev) == IF dev # "cpu" THEN dev ELSE "cpu"

\* Line 123: the device the token batch is on in the forward pass.
ToksPlacement(a, dev) == IF UseAccelerator(a, dev) THEN dev ELSE "cpu"

---------------------------------------------------------------------------
(* FastaBatchedDataset, lines 100-104 *)

\* from_file: one [label, str] per record, in file order.
FromFile(fasta) == fasta

\* from_file asserts that no label occurs twice.
DuplicateLabels(fasta) ==
    \E a, b \in DOMAIN fasta : a # b /\ fasta[a].label = fasta[b].label

ExtraToksPerSeq == 1

\* Python's order on the tuples (len(s), i) that get_batch_indices sorts.
SizeLess(ds, a, b) ==
    \/ Len(ds[a].str) < Len(ds[b].str)
    \/ Len(ds[a].str) = Len(ds[b].str) /\ a < b

RECURSIVE SortBySize(_, _)
SortBySize(ds, S) ==
    IF S = {} THEN <<>>
    ELSE LET m == CHOOSE a \in S : \A b \in S \ {a} : SizeLess(ds, a, b)
         IN  <<m>> \o SortBySize(ds, S \ {m})

Flushed(buf) == IF buf = <<>> THEN <<>> ELSE <<buf>>

RECURSIVE BatchFold(_, _, _, _, _, _)
BatchFold(ds, order, k, buf, max_len, toks_per_batch) ==
    IF k > Len(order) THEN Flushed(buf)
    ELSE LET sz == Len(ds[order[k]].str) + ExtraToksPerSeq
         IN  IF Max(sz, max_len) * (Len(buf) + 1) > toks_per_batch
             THEN Flushed(buf)
                  \o BatchFold(ds, order, k + 1, <<order[k]>>, sz, toks_per_batch)
             ELSE BatchFold(ds, order, k + 1, Append(buf, order[k]),
                            Max(max_len, sz), toks_per_batch)

get_batch_indices(ds, toks_per_batch) ==
    BatchFold(ds, SortBySize(ds, DOMAIN ds), 1, <<>>, 0, toks_per_batch)

---------------------------------------------------------------------------
(* The batch converter and the forward pass, lines 102-104 and 127-134 *)

BatchMaxLen(ds, batch) ==
    CHOOSE m \in { Len(ds[r].str) : r \in Range(batch) } :
        \A r \in Range(batch) : Len(ds[r].str) <= m

\* Width of the token batch: BOS, the longest sequence, EOS.
ToksWidth(ds, batch) == BatchMaxLen(ds, batch) + 2

TokenKind(ds, rec, p) ==
    IF p = 0 THEN "bos"
    ELSE IF p <= Len(ds[rec].str) THEN "res"
    ELSE IF p = Len(ds[rec].str) + 1 THEN "eos"
    ELSE "pad"

\* out["representations"][layer][j]: one entry per token position of row j.
RepRow(ds, batch, j) ==
    [p \in 0..(ToksWidth(ds, batch) - 1) |->
        [rec |-> batch[j], pos |-> p, kind |-> TokenKind(ds, batch[j], p)]]

TensorRowFirst(ds, batch, j) == RepRow(ds, batch, 1)

\* Lines 145, 150 and 155: `t[i, ...]`, the row of the i-th label of the batch.
TensorRow(ds, batch, j) == RepRow(ds, batch, j)

\* One axis of out["contacts"][j]: BOS and EOS are removed by the contact head.
ContactAxis(ds, batch, j) ==
    [p \in 0..(BatchMaxLen(ds, batch) - 1) |->
        [rec |-> batch[j], pos |-> p,
         kind |-> IF p < Len(ds[batch[j]].str) THEN "res" ELSE "pad"]]

SliceInclusive(row, lo, hi) ==
    LET n == Cardinality(DOMAIN row)
        a == Min(lo, n)
        b == Min(hi + 1, n)
    IN  [k \in 1..(b - a) |-> row[a + k - 1]]

\* Python's row[lo:hi] for 0 <= lo <= hi on a row with domain 0..n-1.
Slice(row, lo, hi) ==
    LET n == Cardinality(DOMAIN row)
        a == Min(lo, n)
        b == Min(hi, n)
    IN  [k \in 1..(b - a) |-> row[a + k - 1]]

---------------------------------------------------------------------------
(* The per-sequence result, lines 137-160 *)

OutputDir == <<"out">>

NotDot(c) == c # "."

Front(s) == SubSeq(s, 1, Len(s) - 1)

OutputPathKeepDot(label) ==
    [parts |-> OutputDir \o Front(label), stem |-> label[Len(label)],
     suffix |-> "pt"]

\* Line 137: args.output_dir / f"{label}.pt"; pathlib drops "." components.
OutputPath(label) ==
    [parts |-> OutputDir \o SelectSeq(Front(label), NotDot),
     stem |-> label[Len(label)], suffix |-> "pt"]

TruncateLenNoMin(a, str) == a.truncation_seq_length

\* Line 140.
TruncateLen(a, str) == Min(a.truncation_seq_length, Len(str))

NoKeys == [k \in {} |-> k]

Entry(present, key, value) == IF present THEN key :> value ELSE NoKeys

BuildResultAllKeys(a, layers, label, row, axis, truncate_len) ==
    ("label" :> label)
    @@ ("representations" :> [l \in layers |-> Slice(row, 1, truncate_len + 1)])
    @@ ("mean_representations" :>
            [l \in layers |-> [mean_of |-> Slice(row, 1, truncate_len + 1)]])
    @@ ("bos_representations" :> [l \in layers |-> row[0]])
    @@ Entry("contacts" \in a.include, "contacts",
             [axis0 |-> Slice(axis, 0, truncate_len),
              axis1 |-> Slice(axis, 0, truncate_len)])

\* Lines 139-160: the dictionary handed to torch.save.
BuildResult(a, layers, label, row, axis, truncate_len) ==
    ("label" :> label)
    @@ Entry("per_tok" \in a.include, "representations",
             [l \in layers |-> Slice(row, 1, truncate_len + 1)])
    @@ Entry("mean" \in a.include, "mean_representations",
             [l \in layers |-> [mean_of |-> Slice(row, 1, truncate_len + 1)]])
    @@ Entry("bos" \in a.include, "bos_representations",
             [l \in layers |-> row[0]])
    @@ Entry("contacts" \in a.include, "contacts",
             [axis0 |-> Slice(axis, 0, truncate_len),
              axis1 |-> Slice(axis, 0, truncate_len)])

---------------------------------------------------------------------------
(* Layer indices, lines 110-115 *)

LayersInRangeLoose(layer_args) ==
    \A k \in DOMAIN layer_args :
        -(NumLayers + 1) <= layer_args[k] /\ layer_args[k] <= NumLayers + 1

\* Lines 110-112: the assertion.
LayersInRange(layer_args) ==
    \A k \in DOMAIN layer_args :
        -(NumLayers + 1) <= layer_args[k] /\ layer_args[k] <= NumLayers

NormalizeLayerNoWrap(idx) == (idx + NumLayers) % (NumLayers + 1)

\* Line 114.
NormalizeLayer(idx) == (idx + NumLayers + 1) % (NumLayers + 1)

---------------------------------------------------------------------------
(* concatenate_files, lines 170-197 *)

FilesFoundTopLevel(fs) ==
    { f \in DOMAIN fs : f.suffix = "pt" /\ f.parts = OutputDir }

\* Lines 173-176: the files under output_dir whose name contains ".pt".
FilesFound(fs) == { f \in DOMAIN fs : f.suffix = "pt" }

\* Lines 182-187: tensor.tolist() as the row's values, the label as its index.
RowOf(result, layer) ==
    [index  |-> result["label"],
     values |-> [c \in 1..EmbedDim |->
                    [layer |-> layer, comp |-> c,
                     of |-> result["mean_representations"][layer]]]]

WritesCsvAlways(rows) == TRUE

\* Line 191: `if dataframes:`.
WritesCsv(rows) == rows # {}

---------------------------------------------------------------------------
(* Inputs *)

SeqStrs == { SeqStr(n) : n \in 1..MaxSeqLen }

Fastas == SeqsUpTo([label : Labels, str : SeqStrs], MaxRecords)

LabelOrder == << <<"a">>, <<"d", "a">>, <<".", "a">> >>

\* FASTA files whose k-th record carries the k-th label of LabelOrder.
PlainFastas ==
    { f \in Fastas :
        \A k \in DOMAIN f : f[k].label = LabelOrder[((k - 1) % 3) + 1] }

AllIncludes == (SUBSET IncludeChoices) \ {{}}

Truncations == 1..(MaxSeqLen + 1)

TokBudgets == {1, MaxSeqLen + 2, 2 * (MaxSeqLen + 1)}

LayerIndices == (-(NumLayers + 2))..(NumLayers + 1)

LayerLists == SeqsUpTo(LayerIndices, MaxLayerArgs) \ {<<>>}

\* FASTA files of at most one record.
ShortFastas == { f \in PlainFastas : Len(f) <= 1 }

\* Runs that vary the FASTA file, the batching and the truncation.
FileRuns ==
    [args : [include : {{"mean"}, IncludeChoices},
             truncation_seq_length : Truncations,
             toks_per_batch : TokBudgets,
             repr_layers : {<<-1>>},
             nogpu : {FALSE},
             concatenate : {TRUE}],
     env  : [fasta : Fastas, msa : {FALSE}, mps : {FALSE}, cuda : {TRUE}]]

\* Runs that vary --include.
IncludeRuns ==
    [args : [include : AllIncludes,
             truncation_seq_length : Truncations,
             toks_per_batch : {2 * (MaxSeqLen + 1)},
             repr_layers : {<<-1>>, <<0, -1>>},
             nogpu : {TRUE},
             concatenate : BOOLEAN],
     env  : [fasta : PlainFastas, msa : {FALSE}, mps : {FALSE}, cuda : {FALSE}]]

\* Runs that vary --repr_layers and the kind of model.
LayerRuns ==
    [args : [include : {{"mean"}},
             truncation_seq_length : {MaxSeqLen + 1},
             toks_per_batch : {2 * (MaxSeqLen + 1)},
             repr_layers : LayerLists,
             nogpu : {TRUE},
             concatenate : {TRUE}],
     env  : [fasta : ShortFastas, msa : BOOLEAN, mps : {FALSE}, cuda : {FALSE}]]

\* Runs that vary --nogpu and the accelerators present.
DeviceRuns ==
    [args : [include : {{"bos"}},
             truncation_seq_length : {MaxSeqLen + 1},
             toks_per_batch : TokBudgets,
             repr_layers : {<<-1>>},
             nogpu : BOOLEAN,
             concatenate : {FALSE}],
     env  : [fasta : PlainFastas, msa : BOOLEAN, mps : BOOLEAN, cuda : BOOLEAN]]

Runs == FileRuns \cup IncludeRuns \cup LayerRuns \cup DeviceRuns

---------------------------------------------------------------------------
(* The state machine *)

Init ==
    /\ \E r \in Runs : args = r.args /\ env = r.env
    /\ pc = "start"
    /\ device = "unset"
    /\ modelDevice = "cpu"
    /\ dataset = <<>>
    /\ batches = <<>>
    /\ repr_layers = <<>>
    /\ batch_idx = 1
    /\ i = 1
    /\ forwards = <<>>
    /\ files = NoKeys
    /\ saves = <<>>
    /\ csv = NoCsv
    /\ raised = "none"

\* Lines 87-88: the model is loaded and is not an MSA Transformer.
LoadModel ==
    /\ pc = "start"
    /\ ~env.msa
    /\ pc' = "device"
    /\ UNCHANGED <<args, env, device, modelDevice, dataset, batches, repr_layers,
                   batch_idx, i, forwards, files, saves, csv, raised>>

\* Lines 89-92.
RaiseMSA ==
    /\ pc = "start"
    /\ env.msa
    /\ pc' = "raised"
    /\ raised' = "ValueError"
    /\ UNCHANGED <<args, env, device, modelDevice, dataset, batches, repr_layers,
                   batch_idx, i, forwards, files, saves, csv>>

\* Lines 95-98.
SelectDevice ==
    /\ pc = "device"
    /\ device' = get_device(env)
    /\ modelDevice' = ModelPlacement(args, get_device(env))
    /\ pc' = "read"
    /\ UNCHANGED <<args, env, dataset, batches, repr_layers, batch_idx, i,
                   forwards, files, saves, csv, raised>>

\* Lines 100-105.
ReadFasta ==
    /\ pc = "read"
    /\ ~DuplicateLabels(env.fasta)
    /\ dataset' = FromFile(env.fasta)
    /\ batches' = get_batch_indices(FromFile(env.fasta), args.toks_per_batch)
    /\ pc' = "validate"
    /\ UNCHANGED <<args, env, device, modelDevice, repr_layers, batch_idx, i,
                   forwards, files, saves, csv, raised>>

\* Line 100: from_file's assertion fails.
RaiseDuplicateLabels ==
    /\ pc = "read"
    /\ DuplicateLabels(env.fasta)
    /\ pc' = "raised"
    /\ raised' = "AssertionError: duplicate labels"
    /\ UNCHANGED <<args, env, device, modelDevice, dataset, batches, repr_layers,
                   batch_idx, i, forwards, files, saves, csv>>

\* Lines 107-115, the assertion holding.
NormalizeLayers ==
    /\ pc = "validate"
    /\ LayersInRange(args.repr_layers)
    /\ repr_layers' = [k \in DOMAIN args.repr_layers |->
                          NormalizeLayer(args.repr_layers[k])]
    /\ pc' = "loop"
    /\ UNCHANGED <<args, env, device, modelDevice, dataset, batches, batch_idx,
                   i, forwards, files, saves, csv, raised>>

\* Lines 110-112, the assertion failing.
RaiseLayers ==
    /\ pc = "validate"
    /\ ~LayersInRange(args.repr_layers)
    /\ pc' = "raised"
    /\ raised' = "AssertionError: repr_layers"
    /\ UNCHANGED <<args, env, device, modelDevice, dataset, batches, repr_layers,
                   batch_idx, i, forwards, files, saves, csv>>

\* Lines 118-134: the next batch is moved to the device and run through the model.
Forward ==
    /\ pc = "loop"
    /\ batch_idx <= Len(batches)
    /\ forwards' = Append(forwards,
                          [model |-> modelDevice,
                           toks  |-> ToksPlacement(args, device),
                           batch |-> batch_idx,
                           layers |-> Range(repr_layers)])
    /\ i' = 1
    /\ pc' = "save"
    /\ UNCHANGED <<args, env, device, modelDevice, dataset, batches, repr_layers,
                   batch_idx, files, saves, csv, raised>>

NextIndexSkip(j) == j + 2

\* Line 136: the loop over the labels of the batch.
NextIndex(j) == j + 1

\* Lines 136-165: the result of one sequence is built and saved.
SaveOne ==
    /\ pc = "save"
    /\ i <= Len(batches[batch_idx])
    /\ LET batch == batches[batch_idx]
           rec == batch[i]
           label == dataset[rec].label
           truncate_len == TruncateLen(args, dataset[rec].str)
           result == BuildResult(args, Range(repr_layers), label,
                                 TensorRow(dataset, batch, i),
                                 ContactAxis(dataset, batch, i), truncate_len)
           path == OutputPath(label)
       IN  /\ files' = (path :> result) @@ files
           /\ saves' = Append(saves, [path |-> path, rec |-> rec,
                                      truncate_len |-> truncate_len,
                                      result |-> result])
    /\ i' = NextIndex(i)
    /\ UNCHANGED <<args, env, pc, device, modelDevice, dataset, batches,
                   repr_layers, batch_idx, forwards, csv, raised>>

\* Line 136: the batch's labels are exhausted; on to the next batch.
EndBatch ==
    /\ pc = "save"
    /\ i > Len(batches[batch_idx])
    /\ batch_idx' = batch_idx + 1
    /\ pc' = "loop"
    /\ UNCHANGED <<args, env, device, modelDevice, dataset, batches, repr_layers,
                   i, forwards, files, saves, csv, raised>>

\* Lines 118 and 167: the data loader is exhausted and run() returns.
EndRun ==
    /\ pc = "loop"
    /\ batch_idx > Len(batches)
    /\ pc' = "main"
    /\ UNCHANGED <<args, env, device, modelDevice, dataset, batches, repr_layers,
                   batch_idx, i, forwards, files, saves, csv, raised>>

\* Lines 206-211 and 170-197, every file holding mean representations.
\* popitem takes one layer's tensor of each file.
Concatenate ==
    /\ pc = "main"
    /\ args.concatenate
    /\ \A f \in FilesFound(files) : "mean_representations" \in DOMAIN files[f]
    /\ \E pick \in [FilesFound(files) -> Range(repr_layers)] :
          LET rows == { RowOf(files[f], pick[f]) : f \in FilesFound(files) }
          IN  csv' = IF WritesCsv(rows)
                     THEN [written |-> TRUE, rows |-> rows]
                     ELSE csv
    /\ pc' = "exit"
    /\ UNCHANGED <<args, env, device, modelDevice, dataset, batches, repr_layers,
                   batch_idx, i, forwards, files, saves, raised>>

\* Line 183: a file without mean representations.
RaiseKeyError ==
    /\ pc = "main"
    /\ args.concatenate
    /\ \E f \in FilesFound(files) : "mean_representations" \notin DOMAIN files[f]
    /\ pc' = "raised"
    /\ raised' = "KeyError"
    /\ UNCHANGED <<args, env, device, modelDevice, dataset, batches, repr_layers,
                   batch_idx, i, forwards, files, saves, csv>>

\* Lines 214-217.
SkipConcatenate ==
    /\ pc = "main"
    /\ ~args.concatenate
    /\ pc' = "exit"
    /\ UNCHANGED <<args, env, device, modelDevice, dataset, batches, repr_layers,
                   batch_idx, i, forwards, files, saves, csv, raised>>

Next ==
    \/ LoadModel
    \/ RaiseMSA
    \/ SelectDevice
    \/ ReadFasta
    \/ RaiseDuplicateLabels
    \/ NormalizeLayers
    \/ RaiseLayers
    \/ Forward
    \/ SaveOne
    \/ EndBatch
    \/ EndRun
    \/ Concatenate
    \/ RaiseKeyError
    \/ SkipConcatenate

Spec == Init /\ [][Next]_vars

---------------------------------------------------------------------------
(* Properties *)

\* run() returned without raising (a KeyError is raised later, in
\* concatenate_files).
RunCompleted == pc \in {"main", "exit"} \/ raised = "KeyError"

TrueLen(rec) == Len(dataset[rec].str)

Tokens(result) ==
    (IF "representations" \in DOMAIN result
     THEN UNION { Range(result["representations"][l]) :
                    l \in DOMAIN result["representations"] }
     ELSE {})
    \cup
    (IF "mean_representations" \in DOMAIN result
     THEN UNION { Range(result["mean_representations"][l].mean_of) :
                    l \in DOMAIN result["mean_representations"] }
     ELSE {})

ContactPositions(result) ==
    IF "contacts" \in DOMAIN result
    THEN Range(result["contacts"].axis0) \cup Range(result["contacts"].axis1)
    ELSE {}

BosTokens(result) ==
    IF "bos_representations" \in DOMAIN result
    THEN { result["bos_representations"][l] :
             l \in DOMAIN result["bos_representations"] }
    ELSE {}

\* The tensors of `result` come from record `rec` and have n rows.
SlicedFor(result, rec, n) ==
    /\ \A t \in Tokens(result) \cup ContactPositions(result) \cup BosTokens(result) :
          t.rec = rec
    /\ "representations" \in DOMAIN result =>
          \A l \in DOMAIN result["representations"] :
              Len(result["representations"][l]) = n
    /\ "mean_representations" \in DOMAIN result =>
          \A l \in DOMAIN result["mean_representations"] :
              Len(result["mean_representations"][l].mean_of) = n
    /\ "contacts" \in DOMAIN result =>
          /\ Len(result["contacts"].axis0) = n
          /\ Len(result["contacts"].axis1) = n

ComputedFrom(result, rec) ==
    /\ result["label"] = dataset[rec].label
    /\ SlicedFor(result, rec, Min(args.truncation_seq_length, TrueLen(rec)))

KeyOf(kind) ==
    CASE kind = "per_tok"  -> "representations"
      [] kind = "mean"     -> "mean_representations"
      [] kind = "bos"      -> "bos_representations"
      [] kind = "contacts" -> "contacts"

KeysImplied(include) == { KeyOf(kind) : kind \in include }

\* C2 as stated: the keys of every saved result are exactly the keys implied
\* by --include.
C2_KeysExactlyImplied ==
    \A f \in DOMAIN files : DOMAIN files[f] = KeysImplied(args.include)

\* C2 as amended: every saved result holds the key 'label', and its other
\* keys are exactly the keys implied by --include.
C2_KeysAreLabelPlusImplied ==
    \A f \in DOMAIN files :
        /\ "label" \in DOMAIN files[f]
        /\ DOMAIN files[f] \ {"label"} = KeysImplied(args.include)

C2_Witness ==
    /\ args.include = {"mean", "bos"}
    /\ \E f \in DOMAIN files :
          DOMAIN files[f] = {"label", "mean_representations", "bos_representations"}

C5_LayerNormalization ==
    \A k \in DOMAIN repr_layers :
        LET idx == args.repr_layers[k]
            r == repr_layers[k]
        IN  /\ r \in 0..NumLayers
            /\ idx >= 0 => r = idx
            /\ idx < 0 => r = NumLayers + 1 + idx
            /\ idx = -1 => r = NumLayers

C5_Witness ==
    /\ args.repr_layers = <<-1, -(NumLayers + 1)>>
    /\ repr_layers = <<NumLayers, 0>>

RequestedInRange ==
    \A k \in DOMAIN args.repr_layers :
        args.repr_layers[k] \in (-(NumLayers + 1))..NumLayers

\* C6: an MSA Transformer or a layer index outside [-(L+1), L] makes run()
\* raise, and when it raises no forward pass has run and no per-sequence
\* file has been written.
C6_ValidationAbortsBeforeInference ==
    /\ raised \in {"ValueError", "AssertionError: repr_layers"} =>
          forwards = <<>> /\ saves = <<>> /\ DOMAIN files = {}
    /\ (forwards # <<>> \/ saves # <<>>) => ~env.msa /\ RequestedInRange
    /\ env.msa /\ pc # "start" => raised = "ValueError"
    /\ ~RequestedInRange /\ pc \notin {"start", "device", "read", "validate"}
          => raised # "none"

C6_Witness ==
    /\ raised = "AssertionError: repr_layers"
    /\ Len(dataset) = 1
    /\ \E k \in DOMAIN args.repr_layers : args.repr_layers[k] = NumLayers + 1

\* C7: the written CSV holds, for each result file under the output tree,
\* one row keyed by the file's label with the EmbedDim components of its
\* mean representation; it has as many rows as there are files.
C7_CsvHasOneRowPerFile ==
    csv.written =>
        /\ Cardinality(csv.rows) = Cardinality(DOMAIN files)
        /\ \A row \in csv.rows : Len(row.values) = EmbedDim
        /\ \A f \in DOMAIN files :
              \E row \in csv.rows :
                  /\ row.index = files[f]["label"]
                  /\ \E l \in DOMAIN files[f]["mean_representations"] :
                        \A c \in 1..EmbedDim :
                            /\ row.values[c].comp = c
                            /\ row.values[c].of
                                   = files[f]["mean_representations"][l]

C7_Witness ==
    /\ csv.written
    /\ Cardinality(csv.rows) = 2
    /\ \E f \in DOMAIN files : f.parts # OutputDir
    /\ Len(repr_layers) = 1

\* C8: concatenate_files finding no result file returns without raising and
\* writes no CSV.
C8_NoFilesNoCsv ==
    pc = "exit" /\ args.concatenate /\ DOMAIN files = {} =>
        ~csv.written /\ raised = "none"

C8_Witness ==
    /\ pc = "exit"
    /\ args.concatenate
    /\ DOMAIN files = {}
    /\ dataset = <<>>
    /\ ~csv.written

\* C9 as stated: no output path is the target of two saves of one run.
C9_EachPathWrittenOnce ==
    \A k, m \in DOMAIN saves : k # m => saves[k].path # saves[m].path

\* C9 as amended: every sequence is saved exactly once, in the order the
\* batches yield them, to the path of its label; a path is the target of as
\* many saves as there are sequences whose label resolves to it, so of one
\* save when no two labels resolve to the same path.
C9_EachSequenceSavedOnce ==
    /\ \A k, m \in DOMAIN saves : k # m => saves[k].rec # saves[m].rec
    /\ \A k \in DOMAIN saves :
          /\ saves[k].rec \in DOMAIN dataset
          /\ saves[k].path.stem
                 = dataset[saves[k].rec].label[Len(dataset[saves[k].rec].label)]
    /\ \A k \in DOMAIN saves :
          Cardinality({ m \in DOMAIN saves : saves[m].path = saves[k].path })
              = Cardinality({ rec \in { saves[m].rec : m \in DOMAIN saves } :
                                OutputPath(dataset[rec].label) = saves[k].path })
    /\ DOMAIN files = { saves[k].path : k \in DOMAIN saves }
    /\ RunCompleted => { saves[k].rec : k \in DOMAIN saves } = DOMAIN dataset
    /\ Len(saves) <= Len(dataset)

C9_Witness ==
    /\ pc = "main"
    /\ Len(saves) = 2
    /\ Len(batches) = 2
    /\ saves[1].path # saves[2].path

Placement ==
    LET dev == IF env.mps THEN "mps" ELSE IF env.cuda THEN "cuda" ELSE "cpu"
    IN  IF ~args.nogpu /\ dev # "cpu" THEN dev ELSE "cpu"

\* C10: in every forward pass the token batch is on the model's device:
\* the accelerator get_device selects (MPS before CUDA) when --nogpu is not
\* set and one is present, the CPU otherwise.
C10_DeviceConsistency ==
    \A k \in DOMAIN forwards :
        /\ forwards[k].toks = forwards[k].model
        /\ forwards[k].model = Placement
        /\ args.nogpu => forwards[k].model = "cpu"

C10_Witness ==
    /\ args.nogpu
    /\ env.mps
    /\ Len(forwards) = 2
    /\ forwards[2].toks = "cpu"

===========================================================================
